---- MODULE Spec2Model ----
(***************************************************************************)
(* script-bisect: the command line (main, cli.py), the run and its binary  *)
(* search over a dependency's commits (GitBisector, bisector.py), the      *)
(* per-commit test oracle with its dependency auto-fix retry loop          *)
(* (TestRunner, runner.py; AutoDependencyFixer, auto_dependency_fixer.py)  *)
(* and the script rewriting they rest on (ScriptParser, parser.py); beside *)
(* them the repository manager (RepositoryManager, repository_manager.py). *)
(*                                                                         *)
(* A script is a sequence of lines.  A line is a record                    *)
(*   [k |-> kind, dep |-> the quoted string on the line, comma, ind]       *)
(* and a quoted string (a dependency specifier) is a record                *)
(*   [name, extras, version, url, ref]: name[extras]@<url>@<ref>, or       *)
(* name[extras]<version> with url = NoUrl and ref = NoRef for a specifier  *)
(* that pins no commit.                                                    *)
(***************************************************************************)
EXTENDS Integers, Sequences, FiniteSets, TLC

\* Largest number of commits git rev-list returns in the model.
MaxCommits == 4

\* Largest commit an editing operation pins a package to, and the number of
\* editing operations applied to one text.
MaxRef == 2

MaxEdits == 2

\* The commits of a repository whose history is any history are 0..MaxNodes.
MaxNodes == 3

\* Largest number of directories one RepositoryManager makes.
MaxSetups == 2

retries_raised == 3 + 1

\* runner.py: max_retries = 3
max_retries == 3

----------------------------------------------------------------------------
(* Specifiers and lines *)

\* The ref of a specifier that pins no commit (commits are numbered from 0).
NoRef == 0 - 1

\* The url of a specifier that names no repository.
NoUrl == ""

Specifier(name, extras, url, ref) ==
    [name |-> name, extras |-> extras, version |-> "", url |-> url,
     ref |-> ref]

\* name[extras]<version>, as in "xarray[io]>=2024.1": a dependency the
\* registry resolves.
Versioned(name, extras, version) ==
    [Specifier(name, extras, NoUrl, NoRef) EXCEPT !.version = version]

NoQuote == Specifier("", "", NoUrl, NoRef)

\* Repository urls: an ordinary one, and one whose host is an IPv6 literal,
\* which is written between brackets.
GitHubUrl == "git+https://github.com/pydata/xarray"

LiteralUrl == "git+https://[::1]/xarray.git"

\* The same repository, named without the "git+" in front.
PlainUrl == "https://github.com/pydata/xarray"

Urls == {GitHubUrl, LiteralUrl, PlainUrl}

\* parser.py: 170 to 172: the url with "git+" in front
GitUrl(url) == IF url = PlainUrl THEN GitHubUrl ELSE url

\* The text between the first "[" of a url and the "]" after it.
UrlBracket(url) == IF url = LiteralUrl THEN "::1" ELSE ""

\* re.search(r'\[([^\]]+)\]', dep) (parser.py: 197 to 200): the first
\* bracketed group of the whole specifier, the extras when it has extras,
\* otherwise whatever its url holds between brackets.
BracketGroup(dep) ==
    IF dep.extras # "" THEN dep.extras ELSE UrlBracket(dep.url)

Line(k, dep, comma, ind) == [k |-> k, dep |-> dep, comma |-> comma, ind |-> ind]

\* "# /// script"
StartMarker == Line("start", NoQuote, FALSE, 0)
\* "# ///"
EndMarker == Line("end", NoQuote, FALSE, 0)
\* "# dependencies = ["
DepsOpen == Line("deps_open", NoQuote, FALSE, 0)
\* "# ]"
DepsClose == Line("close", NoQuote, FALSE, 0)
\* '# requires-python = ">=3.11"': a key line carrying one quoted string
RequiresPython ==
    Line("python", Specifier(">=3.11", "", NoUrl, NoRef), FALSE, 0)
\* a line of the script body, after the block
BodyLine == Line("body", NoQuote, FALSE, 0)
\* "# # pinned while bisecting": a comment of the TOML inside the block
CommentLine == Line("comment", NoQuote, FALSE, 0)
\* "#": a blank line inside the block
BlankLine == Line("blank", NoQuote, FALSE, 0)
\* '# dependencies = "<dep>"': the key with a string, not a list
DepsString(dep) == Line("deps_string", dep, FALSE, 0)
\* '#<ind spaces>"<dep>"' with or without a trailing comma
DepLine(dep, comma, ind) == Line("dep", dep, comma, ind)

\* '"]" in line' (auto_dependency_fixer.py: 163, 199): the closing line of a
\* list, or a quoted specifier with a bracketed group, name[extras] or a url
\* that holds one.
HasCloseBracket(line) ==
    \/ line.k = "close"
    \/ line.k \in {"dep", "python"} /\ BracketGroup(line.dep) # ""

\* utils.extract_package_name: the text before the first "@", cut at the first
\* version operator, "[" or ";".  A specifier record keeps the name apart.
extract_package_name(dep) == dep.name

RECURSIVE SeqToSet(_)
SeqToSet(s) == IF s = <<>> THEN {} ELSE {Head(s)} \cup SeqToSet(Tail(s))

\* The sequences without repetition that enumerate exactly the set S.
Orderings(S) == {s \in [1..Cardinality(S) -> S] : SeqToSet(s) = S}

----------------------------------------------------------------------------
(* ScriptParser (parser.py) *)

\* The user's script: a PEP 723 block declaring the bisected package and one
\* other dependency, followed by the script body.

script_content ==
    << StartMarker,
       RequiresPython,
       DepsOpen,
       DepLine(Specifier("xarray", "", NoUrl, NoRef), TRUE, 3),
       DepLine(Specifier("numpy", "", NoUrl, NoRef), TRUE, 3),
       DepsClose,
       EndMarker,
       BodyLine >>

\* Index of the first line of kind k at or after index from; 0 when none.
FirstOfKind(lines, k, from) ==
    LET S == {i \in from..Len(lines) : lines[i].k = k}
    IN  IF S = {} THEN 0 ELSE CHOOSE i \in S : \A j \in S : i <= j

\* metadata_pattern.search (parser.py: 68 to 75, 175 to 182): the first
\* "# /// script" line that is followed by lines starting with "#" up to a
\* "# ///" line, and that "# ///" line, the first after it.  0: no match.
MatchStart(content) ==
    LET S == {s \in 1..Len(content) :
                /\ content[s].k = "start"
                /\ FirstOfKind(content, "end", s + 1) # 0
                /\ \A j \in (s + 1)..(FirstOfKind(content, "end", s + 1) - 1) :
                      content[j].k # "body"}
    IN  IF S = {} THEN 0 ELSE CHOOSE s \in S : \A t \in S : s <= t

MatchEnd(content) == FirstOfKind(content, "end", MatchStart(content) + 1)

\* Whether tomllib.loads refuses the lines of a block, for the blocks of
\* the model: a list that is not closed, a second "dependencies = [" (inside
\* the list of the first, or the same key again), or a marker line among them.
InvalidToml(block) ==
    \/ \E i \in 1..Len(block) : block[i].k = "start"
    \/ \E i, j \in 1..Len(block) :
          i < j /\ block[i].k = "deps_open" /\ block[j].k = "deps_open"
    \/ \E i \in 1..Len(block) :
          block[i].k = "deps_open" /\ FirstOfKind(block, "close", i + 1) = 0

\* ScriptParser(script_path) (parser.py: 40 to 42, 58 to 96): whether
\* _parse_metadata returns or raises ParseError.  The decoded document is
\* returned as it is; validate_metadata is not called.
ParseOutcome(content) ==
    IF MatchStart(content) = 0 THEN "ParseError"
    ELSE IF InvalidToml(SubSeq(content, MatchStart(content) + 1,
                               MatchEnd(content) - 1))
           THEN "ParseError"
           ELSE "ok"

\* 'for dep in dependencies' when dependencies is a string: its characters.
Characters(dep) ==
    IF dep.name = "xarray"
      THEN [i \in 1..6 |->
              [dep EXCEPT !.name = << "x", "a", "r", "r", "a", "y" >>[i]]]
      ELSE << dep >>

\* ScriptParser._parse_metadata: the block the pattern matches, decoded as
\* TOML: its keys in order, and what iterating over "dependencies" gives.
_parse_metadata(content) ==
    LET s == MatchStart(content)
        e == MatchEnd(content)
        block == SubSeq(content, s + 1, e - 1)
        keyOf(l) == IF l.k = "python" THEN "requires-python" ELSE "dependencies"
        keyLines == SelectSeq(block, LAMBDA l :
                        l.k \in {"python", "deps_open", "deps_string"})
        depLines == SelectSeq(block, LAMBDA l : l.k = "dep")
        strings == SelectSeq(block, LAMBDA l : l.k = "deps_string")
    IN  [keys |-> [i \in 1..Len(keyLines) |-> keyOf(keyLines[i])],
         python |-> SelectSeq(block, LAMBDA l : l.k = "python"),
         dependencies |->
            IF strings # <<>> THEN Characters(strings[1].dep)
            ELSE [i \in 1..Len(depLines) |-> depLines[i].dep]]

\* ScriptParser.has_package
has_package(metadata, package_name) ==
    \E i \in 1..Len(metadata.dependencies) :
        extract_package_name(metadata.dependencies[i]) = package_name

\* tomli_w.dumps of the metadata, each line commented again (parser.py: 215
\* to 223): the keys in their order, the dependencies one per line, indented,
\* each followed by a comma.
RECURSIVE CommentedLines(_, _)
CommentedLines(metadata, keys) ==
    IF keys = <<>> THEN <<>>
    ELSE (IF Head(keys) = "requires-python"
            THEN metadata.python
            ELSE <<DepsOpen>>
                 \o [i \in 1..Len(metadata.dependencies) |->
                        DepLine(metadata.dependencies[i], TRUE, 5)]
                 \o <<DepsClose>>)
         \o CommentedLines(metadata, Tail(keys))

new_dep_keeps_pin(package_name, dep, repo_url, new_ref) ==
    IF dep.url # NoUrl
      THEN dep
      ELSE Specifier(package_name, BracketGroup(dep), GitUrl(repo_url), new_ref)

\* parser.py: 194 to 202: the specifier written for an entry of the package,
\* f"{package_name}{extras}@{repo_url}@{new_ref}".
new_dep(package_name, dep, repo_url, new_ref) ==
    Specifier(package_name, BracketGroup(dep), GitUrl(repo_url), new_ref)

\* ScriptParser.update_git_reference for a package the metadata declares: the
\* content with its block replaced by the rewritten metadata, in which every
\* specifier of package_name is name[extras]@repo_url@new_ref.
update_git_reference(content, metadata, package_name, repo_url, new_ref) ==
    LET s == MatchStart(content)
        e == MatchEnd(content)
        updated_dependencies ==
            [i \in 1..Len(metadata.dependencies) |->
                LET dep == metadata.dependencies[i]
                IN  IF extract_package_name(dep) = package_name
                      THEN new_dep(package_name, dep, repo_url, new_ref)
                      ELSE dep]
        metadata_copy == [metadata EXCEPT !.dependencies = updated_dependencies]
    IN  SubSeq(content, 1, s)
        \o CommentedLines(metadata_copy, metadata_copy.keys)
        \o SubSeq(content, e, Len(content))

----------------------------------------------------------------------------
(* AutoDependencyFixer (auto_dependency_fixer.py) *)

\* The first entries of the catalog; an error_pattern stands for itself.
DEPENDENCY_FIXES ==
    << [package_name |-> Specifier("cftime", "", NoUrl, NoRef),
        error_pattern |-> "The cftime package is required"],
       [package_name |-> Specifier("dask", "array", NoUrl, NoRef),
        error_pattern |-> "chunk manager 'dask' is not available"],
       [package_name |-> Specifier("dask", "array", NoUrl, NoRef),
        error_pattern |-> "make sure 'dask' is installed"] >>

Patterns == {DEPENDENCY_FIXES[i].error_pattern : i \in 1..Len(DEPENDENCY_FIXES)}

\* An error text is a set of occurrences: a pattern of the catalog, or some
\* other message, written as in the catalog or in capitals.
OtherMessage == "Traceback (most recent call last)"

Occurrences ==
    {[pattern |-> p, capitals |-> c] :
        p \in Patterns \cup {OtherMessage}, c \in BOOLEAN}

\* re.search(fix.error_pattern, error_output, re.IGNORECASE), for every
\* pattern of the catalog (auto_dependency_fixer.py: 107): the patterns that
\* occur in the text, in whatever case.
PatternsIn(error_text) ==
    {p \in Patterns : \E o \in error_text : o.pattern = p}

DetectFirstOnly(catalog, error_output) ==
    LET all == SelectSeq(catalog, LAMBDA fix : fix.error_pattern \in error_output)
    IN  IF all = <<>> THEN <<>> ELSE << Head(all) >>

\* The loop of detect_missing_dependencies over a catalog
\* (auto_dependency_fixer.py: 104 to 114).
DetectWith(catalog, error_output) ==
    SelectSeq(catalog, LAMBDA fix : fix.error_pattern \in error_output)

\* AutoDependencyFixer.detect_missing_dependencies.  The error output is the
\* set of catalog patterns re.search finds in it.
detect_missing_dependencies(error_output) ==
    DetectWith(DEPENDENCY_FIXES, error_output)

\* 'list({fix.package_name for fix in fixes})': the packages, once each.
FixPackages(fixes) == {fixes[i].package_name : i \in 1..Len(fixes)}

\* The block a script's lines hold as apply_dependency_fixes finds it
\* (auto_dependency_fixer.py: 136 to 149): the scan stops at the first
\* "# ///"; the last "# /// script" and the last "# dependencies = [" seen
\* before it count.  0 stands for None.
metadata_end(lines) == FirstOfKind(lines, "end", 1)

Scanned(lines) ==
    IF metadata_end(lines) = 0 THEN 1..Len(lines) ELSE 1..(metadata_end(lines) - 1)

LastIn(S) == IF S = {} THEN 0 ELSE CHOOSE i \in S : \A j \in S : j <= i

metadata_start(lines) == LastIn({i \in Scanned(lines) : lines[i].k = "start"})

dependencies_line(lines) ==
    LastIn({i \in Scanned(lines) :
              /\ lines[i].k = "deps_open"
              /\ \E j \in 1..(i - 1) : lines[j].k = "start"})

\* The first line from dependencies_line to metadata_end with a "]" in it;
\* 0 when there is none (or no dependencies line).
FirstBracketLine(lines) ==
    IF dependencies_line(lines) = 0 THEN 0
    ELSE LET S == {i \in dependencies_line(lines)..metadata_end(lines) :
                     HasCloseBracket(lines[i])}
         IN  IF S = {} THEN 0 ELSE CHOOSE i \in S : \A j \in S : i <= j

\* existing_deps (auto_dependency_fixer.py: 156 to 173): the quoted strings
\* between the "[" of the dependencies line and the first "]" after it.  The
\* lines before the one holding that "]" give their quoted string; that line
\* gives none (before its "]" stands at most an opening quote).
existing_deps(lines) ==
    IF FirstBracketLine(lines) = 0 THEN <<>>
    ELSE LET between == SubSeq(lines, dependencies_line(lines),
                               FirstBracketLine(lines) - 1)
             quoted == SelectSeq(between, LAMBDA l : l.k \in {"dep", "python"})
         IN  [i \in 1..Len(quoted) |-> quoted[i].dep]

\* Whether apply_dependency_fixes writes a new file (it returns script_path
\* itself without fixes or without a block).
CreatesFixedScript(lines, fixes) ==
    /\ fixes # <<>>
    /\ metadata_start(lines) # 0
    /\ metadata_end(lines) # 0

\* AutoDependencyFixer.apply_dependency_fixes: the text of the file it
\* writes.  new_deps is the list of the set of fix packages, in the order the
\* set happens to iterate.
apply_dependency_fixes(lines, fixes, new_deps) ==
    IF ~CreatesFixedScript(lines, fixes) THEN lines
    ELSE LET existing == existing_deps(lines)
             all_deps == existing
                         \o SelectSeq(new_deps,
                                      LAMBDA dep : dep \notin SeqToSet(existing))
             deps_lines == <<DepsOpen>>
                           \o [i \in 1..Len(all_deps) |->
                                  DepLine(all_deps[i], i < Len(all_deps), 3)]
                           \o <<DepsClose>>
             skip_until == IF FirstBracketLine(lines) # 0
                             THEN FirstBracketLine(lines) + 1
                             ELSE metadata_start(lines) + 2
         IN  SubSeq(lines, 1, metadata_start(lines) + 1)
             \o deps_lines
             \o SubSeq(lines, skip_until, Len(lines))

\* AutoDependencyFixer.fix_and_retry: should_retry.
fix_and_retry(lines, error_output) ==
    CreatesFixedScript(lines, detect_missing_dependencies(error_output))

----------------------------------------------------------------------------
(* The run: cli.main (cli.py), GitBisector.run and _run_binary_search       *)
(* (bisector.py) and, inside each probe, TestRunner.test_commit and         *)
(* TestRunner._run_test (runner.py).                                        *)

VARIABLES
    inverse,            \* GitBisector.inverse
    skip_verification,  \* GitBisector.skip_verification
    keep_clone,         \* GitBisector.keep_clone
    package,            \* the package to bisect
    dry_run,            \* main's dry_run (FALSE when main is not what runs)
    repo,               \* the repository: its commits, good_ref and bad_ref
    pc,                 \* where main, run and _run_binary_search stand
    commits,            \* the list _binary_search_commits works on
    left, right,        \* its bounds (indices from 0, as in the code)
    first_bad,          \* its first_bad (None: no commit)
    steps,              \* its steps
    phase,              \* where the probe stands: idle, running, exited
    commit,             \* the commit under test
    current_script,     \* the text of _run_test's current_script
    previous_temp_script, \* _run_test's previous_temp_script (a path)
    retries,            \* _run_test's retries
    result,             \* what subprocess.run gave for the last execution
    execs,              \* executions of the test command in this probe
    outcome,            \* how the last call of test_commit ended
    fs,                 \* the files: the user's script and temporary copies
    clone_exists,       \* GitBisector.clone_dir.exists()
    run_result,         \* how GitBisector.run ended
    exit_code,          \* the exit code of the command line (None: running)
    verdicts,           \* per commit of the range, what _test_commit returned
    fixes_applied,      \* the packages fix rounds have added in this run
    parser,             \* TestRunner.parser: its _content and _metadata
    message,            \* what main printed after bisector.run() returned
    rm,                 \* a RepositoryManager and the directories it made
    ed                  \* the text under edit, for the editing operations

vars == << inverse, skip_verification, keep_clone, package, dry_run, repo, pc,
           commits, left,
           right, first_bad, steps, phase, commit, current_script,
           previous_temp_script, retries, result, execs, outcome, fs,
           clone_exists, run_result, exit_code, verdicts, fixes_applied,
           parser, message, rm, ed >>

params == << inverse, skip_verification, keep_clone, package, dry_run, repo >>

engine_vars == << pc, commits, left, right, first_bad, steps, verdicts >>

run_vars == << clone_exists, run_result, exit_code, message >>

\* first_bad = None
None == 0 - 1

\* What a ref names when it names no commit of the repository.
UnknownRef == 0 - 1

\* A repository whose history is a line: commit 0, then n commits, each the
\* child of the one before; good_ref names commit 0 and bad_ref the last.
Linear(n) ==
    [parents |-> [c \in 0..n |-> IF c = 0 THEN {} ELSE {c - 1}],
     good |-> 0, bad |-> n]

\* The commits reachable from commit c, c among them.
RECURSIVE Reachable(_, _)
Reachable(parents, c) ==
    {c} \cup UNION {Reachable(parents, p) : p \in parents[c]}

RECURSIVE Sorted(_)
Sorted(S) ==
    IF S = {} THEN <<>>
    ELSE LET m == CHOOSE c \in S : \A d \in S : c <= d
         IN  << m >> \o Sorted(S \ {m})

\* git rev-list good..bad --reverse (bisector.py: 207 to 210): the commits
\* reachable from bad and not from good, oldest first.  A commit is older
\* than the commits of higher number.
rev_list(r) ==
    Sorted(Reachable(r.parents, r.bad) \ Reachable(r.parents, r.good))

\* self.repo.commit(self.good_ref), self.repo.commit(self.bad_ref).  In a
\* linear repository rev-list good..bad gives commits 1..N.
good_commit == repo.good

N == Len(verdicts)

bad_commit == repo.bad

\* GitBisector.repo_url
repo_url == GitHubUrl

\* The package argument: one the user's script declares, one it does not.
Packages == {"xarray", "pandas"}

\* What one execution of the test command can give (runner.py: 118 to 198).
\* The output of a failed run is the set of catalog patterns it contains; the
\* output of a run that exits 0 is never read.
NoResult == [kind |-> "none", returncode |-> 0, output |-> {}]

Results ==
    {[kind |-> "completed", returncode |-> 0, output |-> {}]}
    \cup {[kind |-> "completed", returncode |-> 1, output |-> o] :
              o \in SUBSET Patterns}
    \cup {[kind |-> k, returncode |-> 0, output |-> {}] :
              k \in {"TimeoutExpired", "FileNotFoundError", "Exception",
                     "KeyboardInterrupt"}}

mid_low == left

\* bisector.py: 334
mid == (left + right) \div 2

\* commits.pop(i), i counted from 0
Pop(s, i) == SubSeq(s, 1, i) \o SubSeq(s, i + 2, Len(s))

\* Paths.  The user's script; the file test_commit writes the pinned script
\* to; the file the k-th fix round of a probe writes.  NoPath is None.
NoPath == ""

ScriptPath == "script.py"

temp_script_overwrites == ScriptPath

temp_script_path == "tmp0.py"

fixed_script_path(k) ==
    CASE k = 1 -> "tmp1.py" [] k = 2 -> "tmp2.py" [] OTHER -> "tmp3.py"

\* write_text / NamedTemporaryFile + write, and unlink
WriteFile(files, path, content) ==
    [q \in DOMAIN files \cup {path} |-> IF q = path THEN content ELSE files[q]]

Unlink(files, path) == [q \in DOMAIN files \ {path} |-> files[q]]

\* ScriptParser(script_path): the content read from the file and the metadata
\* parsed from it (parser.py: 31 to 42).
ScriptParser(content) ==
    [content |-> content, metadata |-> _parse_metadata(content)]

parser_stores_update(p, modified_content) == ScriptParser(modified_content)

\* What update_git_reference leaves in the parser: it reads _content, works
\* on a copy of _metadata whose "dependencies" it sets to a new list, and
\* returns a new string (parser.py: 177 to 232).
parser_after_update(p, modified_content) == p

\* main has printed neither line of cli.py: 217 to 223.
NoMessage == "none"

\* RepositoryManager(repo_url): repo and clone_dir are None (0); no
\* directory was made (repository_manager.py: 44, 45).  ready, op and raised
\* record the calls made: whether the last setup_repository succeeded with no
\* cleanup since, the last call and what it raised ("" when it returned).
RepositoryManager ==
    [repo |-> 0, clone_dir |-> 0, dirs |-> {}, made |-> 0,
     ready |-> FALSE, op |-> "none", raised |-> ""]

\* The state of the editing operations while none is under way.
NoEdit == [text |-> <<>>, op |-> "none", p |-> "", s |-> NoUrl, r |-> NoRef,
           n |-> 0, err |-> {}, fixes |-> <<>>, parsed |-> "none"]

\* Repositories in which good_ref and bad_ref give no range: bad_ref names
\* no commit, both name the same commit, bad_ref names an ancestor of the
\* commit good_ref names.
BadRanges ==
    {[Linear(1) EXCEPT !.bad = UnknownRef],
     [Linear(1) EXCEPT !.bad = 0],
     [Linear(1) EXCEPT !.good = 1, !.bad = 0]}

Init ==
    /\ inverse \in BOOLEAN
    /\ skip_verification \in BOOLEAN
    /\ keep_clone \in BOOLEAN
    /\ package \in Packages
    /\ dry_run \in BOOLEAN
    /\ repo \in {Linear(n) : n \in 1..MaxCommits} \cup BadRanges
    /\ commits = <<>>
    /\ verdicts = <<>>
    /\ right = 0 - 1
    /\ left = 0
    /\ first_bad = None
    /\ steps = 0
    /\ pc = "start"
    /\ phase = "idle"
    /\ commit = None
    /\ current_script = <<>>
    /\ previous_temp_script = NoPath
    /\ retries = 0
    /\ result = NoResult
    /\ execs = 0
    /\ outcome = "none"
    /\ fs = [q \in {ScriptPath} |-> script_content]
    /\ clone_exists = FALSE
    /\ run_result = "none"
    /\ exit_code = None
    /\ fixes_applied = {}
    /\ parser = ScriptParser(script_content)
    /\ message = NoMessage
    /\ rm = RepositoryManager
    /\ ed = NoEdit

\* The probe's bookkeeping, left alone by the steps outside a probe.
probe_vars == << phase, commit, current_script, previous_temp_script,
                 retries, result, execs, outcome, fs, fixes_applied,
                 parser >>

\* The script declares the package to bisect (ScriptParser.has_package on
\* the metadata read from the user's script).
Declares == has_package(_parse_metadata(script_content), package)

_cleanup_always == FALSE

\* GitBisector._cleanup: whether the clone directory exists after it.
_cleanup == IF ~keep_clone /\ clone_exists THEN FALSE ELSE clone_exists

\* run ends, returning or raising: its finally clause (bisector.py: 123,
\* 124).
EndRun(how) ==
    /\ run_result' = how
    /\ clone_exists' = _cleanup
    /\ UNCHANGED << exit_code, message >>

\* An exception leaves run: KeyboardInterrupt as it is, the others as the
\* error of the step that failed.
RunRaises(e) ==
    /\ pc' = IF e = "KeyboardInterrupt" THEN "interrupted" ELSE "raised"
    /\ EndRun(e)

main_branch_ignores_dry_run(same_refs) ==
    CASE ~Declares -> "exited"
      [] same_refs -> "refs_rejected"
      [] OTHER -> "clone"

main_branch_ignores_package(same_refs) ==
    CASE same_refs -> "refs_rejected"
      [] dry_run -> "dry_run"
      [] OTHER -> "clone"

\* Where main goes with the arguments given on the command line (cli.py:
\* 163 to 213): sys.exit(1) for a package the script does not declare
\* (171), sys.exit(1) for a good_ref equal to bad_ref (186, 259 to 263),
\* return in dry-run mode (194 to 200), otherwise on to the bisector.
main_branch(same_refs) ==
    CASE ~Declares -> "exited"
      [] same_refs -> "refs_rejected"
      [] dry_run -> "dry_run"
      [] OTHER -> "clone"

\* cli.main up to the call of bisector.run (cli.py: 149 to 213).  The
\* bisector is made only on the last branch, and with it the clone
\* directory (bisector.py: 81).  Two refs that are the same string name
\* the same commit.
main ==
    /\ pc = "start"
    /\ \E same_refs \in {b \in BOOLEAN : b => repo.good = repo.bad} :
          LET branch == main_branch(same_refs)
          IN  /\ pc' = branch
              /\ clone_exists' = (branch = "clone")
              /\ exit_code' = CASE branch \in {"exited", "refs_rejected"} -> 1
                                [] branch = "dry_run" -> 0
                                [] OTHER -> exit_code
    /\ UNCHANGED << params, rm, commits, left, right, first_bad, steps,
                    verdicts, run_result, message, probe_vars, ed >>

\* GitBisector(...).run() called by a program of its own: nothing has
\* checked the package against the script, and there is no dry-run mode.
GitBisector_run ==
    /\ pc = "start"
    /\ ~dry_run
    /\ pc' = "clone"
    /\ clone_exists' = TRUE
    /\ UNCHANGED << params, rm, commits, left, right, first_bad, steps, verdicts,
                    run_result, exit_code, message, probe_vars, ed >>

\* bisector.py: 103, 126 to 172
_clone_repository ==
    /\ pc = "clone"
    /\ \E how \in {"ok", "RepositoryError", "KeyboardInterrupt"} :
          IF how = "ok"
            THEN pc' = "validate_refs" /\ UNCHANGED run_vars
            ELSE RunRaises(how)
    /\ UNCHANGED << params, rm, commits, left, right, first_bad, steps, verdicts,
                    probe_vars, ed >>

\* bisector.py: 106, 174 to 188: repo.commit raises git.BadName for a ref
\* that names no commit, and _validate_refs GitError.
_validate_refs ==
    /\ pc = "validate_refs"
    /\ IF repo.good = UnknownRef \/ repo.bad = UnknownRef
         THEN RunRaises("GitError: Invalid git reference")
         ELSE pc' = "range" /\ UNCHANGED run_vars
    /\ UNCHANGED << params, rm, commits, left, right, first_bad, steps, verdicts,
                    probe_vars, ed >>

NoCommitsFoundNever(commit_shas) == FALSE

\* bisector.py: 213: 'if not commit_shas or commit_shas == [""]'
NoCommitsFound(commit_shas) == commit_shas = <<>>

\* bisector.py: 247 to 258, 199 to 222: the range is what rev-list gives.
\* When it gives no commit, or git fails, run is left by a GitError (214,
\* 221, 222, 307 to 309).  Otherwise the search will start on the range
\* (316 to 318).
_get_commit_range ==
    /\ pc = "range"
    /\ \E how \in {"rev_list", "GitCommandError"} :
          IF how = "GitCommandError"
            THEN /\ RunRaises("GitError: Failed to get commit range")
                 /\ UNCHANGED << commits, verdicts, right >>
            ELSE IF NoCommitsFound(rev_list(repo))
                   THEN /\ RunRaises("GitError: No commits found")
                        /\ UNCHANGED << commits, verdicts, right >>
                   ELSE /\ commits' = rev_list(repo)
                        /\ verdicts' = [i \in 1..Len(rev_list(repo)) |->
                                           "unprobed"]
                        /\ right' = Len(rev_list(repo)) - 1
                        /\ pc' = IF skip_verification THEN "search"
                                                     ELSE "verify_good"
                        /\ UNCHANGED run_vars
    /\ UNCHANGED << params, rm, left, first_bad, steps, probe_vars, ed >>

\* TestRunner.test_commit up to the call of _run_test: the script pinned to
\* the commit is made from the parser's content and metadata, which were read
\* once from the user's script (runner.py: 43, 62 to 71).
PinnedScriptKeepsFixes(commit_hash) ==
    LET pinned == update_git_reference(script_content,
                                       _parse_metadata(script_content),
                                       package, repo_url, commit_hash)
    IN  IF fixes_applied = {} THEN pinned
        ELSE apply_dependency_fixes(
                 pinned,
                 SelectSeq(DEPENDENCY_FIXES,
                           LAMBDA fix : fix.package_name \in fixes_applied),
                 CHOOSE s \in Orderings(fixes_applied) : TRUE)

PinnedScript(commit_hash) ==
    update_git_reference(parser.content, parser.metadata,
                         package, repo_url, commit_hash)

\* update_git_reference raises ParseError for a package the script does not
\* declare (parser.py: 167, 168): no file is written, and the probe stands
\* at the exception.
test_commit(commit_hash) ==
    /\ commit' = commit_hash
    /\ retries' = 0
    /\ execs' = 0
    /\ result' = NoResult
    /\ outcome' = "none"
    /\ previous_temp_script' = NoPath
    /\ parser' = IF Declares
                   THEN parser_after_update(parser,
                                            PinnedScript(commit_hash))
                   ELSE parser
    /\ IF Declares
         THEN /\ current_script' = PinnedScript(commit_hash)
              /\ fs' = WriteFile(fs, temp_script_path,
                                 PinnedScript(commit_hash))
              /\ phase' = "running"
         ELSE /\ current_script' = <<>>
              /\ fs' = fs
              /\ phase' = "ParseError"
    /\ UNCHANGED << params, rm, fixes_applied, run_vars, ed >>

\* bisector.py: 262 to 264
VerifyGoodRef ==
    /\ pc = "verify_good"
    /\ phase = "idle"
    /\ test_commit(good_commit)
    /\ UNCHANGED engine_vars

\* bisector.py: 274 to 276
VerifyBadRef ==
    /\ pc = "verify_bad"
    /\ phase = "idle"
    /\ test_commit(bad_commit)
    /\ UNCHANGED engine_vars

\* bisector.py: 332 to 351
SearchStep ==
    /\ pc = "search"
    /\ phase = "idle"
    /\ left <= right
    /\ steps' = steps + 1
    /\ test_commit(commits[mid + 1])
    /\ UNCHANGED << pc, commits, left, right, first_bad, verdicts >>

\* bisector.py: 332, 370 to 372, then 291 to 305 and 114 to 124
SearchReturn ==
    /\ pc = "search"
    /\ phase = "idle"
    /\ left > right
    /\ pc' = "returned"
    /\ EndRun(IF first_bad # None THEN "found" ELSE "no_result")
    /\ UNCHANGED << params, rm, commits, left, right, first_bad, steps, verdicts,
                    probe_vars, ed >>

\* subprocess.run ends, one way or another (runner.py: 118 to 124).
RunProcess ==
    /\ phase = "running"
    /\ \E r \in Results : result' = r
    /\ execs' = execs + 1
    /\ phase' = "exited"
    /\ UNCHANGED << params, rm, commit, current_script, previous_temp_script,
                    retries, outcome, fs, fixes_applied, parser, run_vars,
                    ed >>
    /\ UNCHANGED engine_vars

_test_commit_ignores_inverse(how) ==
    CASE how = "raise" -> "untestable"
      [] how = "True" -> "good"
      [] OTHER -> "bad"

\* GitBisector._test_commit: what the engine sees of test_commit's outcome,
\* "raise" when it raised (bisector.py: 233 to 243).
_test_commit(how) ==
    IF how = "raise" THEN "untestable"
    ELSE IF inverse
           THEN (IF how = "True" THEN "bad" ELSE "good")
           ELSE (IF how = "True" THEN "good" ELSE "bad")

NextLeftStays(v) == IF v = "good" THEN mid ELSE left

NextLeftGoesBack(v) == IF v = "good" THEN mid - 1 ELSE left

\* bisector.py: 362 to 364
NextLeftSkipsOne(v) == IF v = "good" THEN mid + 2 ELSE left

NextLeft(v) == IF v = "good" THEN mid + 1 ELSE left

\* bisector.py: 353 to 360, 365 to 368
NextRightDropsRest(v) ==
    IF v \in {"untestable", "bad"} THEN mid - 1 ELSE right

NextRight(v) ==
    CASE v = "untestable" ->
            (IF mid <= (left + right) \div 2 THEN right - 1 ELSE right)
      [] v = "bad" -> mid - 1
      [] OTHER -> right

\* bisector.py: 365 to 367
NextFirstBadKeepsFirst(v) ==
    IF v = "bad" /\ first_bad = None THEN commits[mid + 1] ELSE first_bad

NextFirstBad(v) == IF v = "bad" THEN commits[mid + 1] ELSE first_bad

NextCommitsPopsLeft(v) ==
    IF v = "untestable" THEN Pop(commits, left) ELSE commits

NextCommitsDropsBad(v) ==
    IF v \in {"untestable", "bad"} THEN Pop(commits, mid) ELSE commits

\* bisector.py: 353 to 357
NextCommits(v) == IF v = "untestable" THEN Pop(commits, mid) ELSE commits

AfterGoodRefWantsGood(v) == IF v = "good" THEN "verify_bad" ELSE "rejected"

\* bisector.py: 265 to 271: where the verdict of the good ref leads
AfterGoodRef(v) == IF v = "bad" THEN "rejected" ELSE "verify_bad"

\* bisector.py: 277 to 283: where the verdict of the bad ref leads
AfterBadRef(v) == IF v = "good" THEN "rejected" ELSE "search"

\* "return None" of _run_binary_search at an endpoint, then run's return of
\* an empty BisectResult (bisector.py: 267, 279, 120 to 124); otherwise the
\* run goes on.
GoOn(next_pc) ==
    /\ pc' = next_pc
    /\ IF next_pc = "rejected" THEN EndRun("no_result")
                               ELSE UNCHANGED run_vars

\* The engine takes the verdict of the probe it was waiting for.
\* verify_good: bisector.py 265 to 271; verify_bad: 277 to 283, then 289 and
\* 313 to 315; search: 353 to 368.
TakeVerdict(v) ==
    CASE pc = "verify_good" ->
            /\ GoOn(AfterGoodRef(v))
            /\ UNCHANGED << commits, left, right, first_bad, steps, verdicts >>
      [] pc = "verify_bad" ->
            /\ GoOn(AfterBadRef(v))
            /\ UNCHANGED << commits, left, right, first_bad, steps, verdicts >>
      [] OTHER ->
            /\ verdicts' = [verdicts EXCEPT ![commit] = v]
            /\ commits' = NextCommits(v)
            /\ left' = NextLeft(v)
            /\ right' = NextRight(v)
            /\ first_bad' = NextFirstBad(v)
            /\ UNCHANGED << pc, steps, run_vars >>

\* AutoDependencyFixer.cleanup_temp_script
cleanup_temp_script(files, script_path, original_script_path) ==
    IF script_path # original_script_path /\ script_path \in DOMAIN files
      THEN Unlink(files, script_path)
      ELSE files

\* The path of _run_test's current_script: its argument, or the file of the
\* last fix round.
CurrentPath ==
    IF retries = 0 THEN temp_script_path ELSE fixed_script_path(retries)

RunTestFinallyForgetsCurrent(files) ==
    IF previous_temp_script # NoPath /\ previous_temp_script # temp_script_path
      THEN cleanup_temp_script(files, previous_temp_script, temp_script_path)
      ELSE files

\* The finally clause of _run_test (runner.py: 200 to 207)
RunTestFinally(files) ==
    LET a == IF previous_temp_script # NoPath
                  /\ previous_temp_script # temp_script_path
               THEN cleanup_temp_script(files, previous_temp_script,
                                        temp_script_path)
               ELSE files
    IN  IF CurrentPath # temp_script_path /\ CurrentPath # previous_temp_script
          THEN cleanup_temp_script(a, CurrentPath, temp_script_path)
          ELSE a

\* The finally clauses a probe leaves through: _run_test's, then
\* test_commit's unlink of the pinned copy (runner.py: 81 to 86).
ProbeCleanup(files) == Unlink(RunTestFinally(files), temp_script_path)

\* _run_test returns or raises, test_commit passes that on, and the engine
\* goes on with the verdict.
Finish(how) ==
    /\ phase' = "idle"
    /\ outcome' = how
    /\ fs' = ProbeCleanup(fs)
    /\ TakeVerdict(_test_commit(how))
    /\ UNCHANGED << params, rm, commit, current_script, previous_temp_script,
                    retries, result, execs, fixes_applied, parser, exit_code,
                    message, ed >>

\* runner.py: 88, 89, then bisector.py: 241 to 243
PinFailed ==
    /\ phase = "ParseError"
    /\ phase' = "idle"
    /\ outcome' = "raise"
    /\ TakeVerdict(_test_commit("raise"))
    /\ UNCHANGED << params, rm, commit, current_script, previous_temp_script,
                    retries, result, execs, fs, fixes_applied, parser,
                    exit_code, message, ed >>

ExitZeroFirstTimeOnly ==
    /\ phase = "exited"
    /\ result.kind = "completed"
    /\ result.returncode = 0
    /\ Finish(IF retries = 0 THEN "True" ELSE "False")

\* runner.py: 133 to 134
ExitZero ==
    /\ phase = "exited"
    /\ result.kind = "completed"
    /\ result.returncode = 0
    /\ Finish("True")

ShouldRetryAnyFailure == retries < max_retries

\* runner.py: 137, 146: a fix round may follow this failure
ShouldRetry ==
    /\ retries < max_retries
    /\ fix_and_retry(current_script, result.output)

\* runner.py: 147 to 158: the files after a fix round wrote fixed_script,
\* and the previous_temp_script it leaves.
AfterFixRound(files, fixed_script, content) ==
    LET written == WriteFile(files, fixed_script, content)
    IN  IF previous_temp_script # NoPath
             /\ previous_temp_script # temp_script_path
          THEN cleanup_temp_script(written, previous_temp_script,
                                   temp_script_path)
          ELSE written

NextPrevious ==
    IF CurrentPath # temp_script_path THEN CurrentPath
                                      ELSE previous_temp_script

\* runner.py: 136 to 162, then the loop condition at 106
FailRetry ==
    /\ phase = "exited"
    /\ result.kind = "completed"
    /\ result.returncode # 0
    /\ ShouldRetry
    /\ LET fixes == detect_missing_dependencies(result.output)
       IN  /\ \E new_deps \in Orderings(FixPackages(fixes)) :
                 /\ current_script' =
                       apply_dependency_fixes(current_script, fixes, new_deps)
                 /\ fs' = AfterFixRound(
                              fs, fixed_script_path(retries + 1),
                              apply_dependency_fixes(current_script, fixes,
                                                     new_deps))
           /\ fixes_applied' =
                 fixes_applied
                 \cup (FixPackages(fixes)
                       \ SeqToSet(existing_deps(current_script)))
    /\ previous_temp_script' = NextPrevious
    /\ retries' = retries + 1
    /\ IF retries + 1 <= max_retries
         THEN /\ phase' = "running"
              /\ UNCHANGED << engine_vars, run_vars >>
         ELSE /\ phase' = "idle"
              /\ TakeVerdict(_test_commit("False"))
    /\ UNCHANGED << params, rm, commit, result, execs, outcome, parser,
                    exit_code, message, ed >>

\* runner.py: 164 to 185
FailFinal ==
    /\ phase = "exited"
    /\ result.kind = "completed"
    /\ result.returncode # 0
    /\ ~ShouldRetry
    /\ Finish("False")

\* runner.py: 187 to 189
TimedOut ==
    /\ phase = "exited"
    /\ result.kind = "TimeoutExpired"
    /\ Finish("False")

\* runner.py: 190 to 195, re-raised by test_commit at 88 to 89
CommandNotFound ==
    /\ phase = "exited"
    /\ result.kind = "FileNotFoundError"
    /\ Finish("raise")

\* runner.py: 196 to 198
ExecutionFailed ==
    /\ phase = "exited"
    /\ result.kind = "Exception"
    /\ Finish("False")

\* The user interrupts the test command: KeyboardInterrupt leaves
\* subprocess.run and no "except Exception" on its way catches it; the
\* finally clauses of _run_test, test_commit and run are executed
\* (runner.py: 200 to 207, 81 to 86; bisector.py: 123, 124).
Interrupted ==
    /\ phase = "exited"
    /\ result.kind = "KeyboardInterrupt"
    /\ phase' = "idle"
    /\ outcome' = "KeyboardInterrupt"
    /\ fs' = ProbeCleanup(fs)
    /\ RunRaises("KeyboardInterrupt")
    /\ UNCHANGED << params, rm, commits, left, right, first_bad, steps, verdicts,
                    commit, current_script, previous_temp_script, retries,
                    result, execs, fixes_applied, parser, ed >>

\* cli.py: 215 to 237.  "if result:" is true of every BisectResult, which
\* defines neither __bool__ nor __len__; an error of the package ends main
\* with sys.exit(1), KeyboardInterrupt with sys.exit(130).
ExitCode(how) ==
    CASE how \in {"found", "no_result"} -> 0
      [] how = "KeyboardInterrupt" -> 130
      [] OTHER -> 1

\* bool(result) for the BisectResult run returned: the class defines neither
\* __bool__ nor __len__ (bisector.py: 24 to 45), so every instance is true.
bool(how) == how \in {"found", "no_result"}

\* cli.py: 217 to 223: the line main prints after bisector.run() returned;
\* when run raised, main prints the error instead (225 to 237).
Message(how) ==
    CASE how \notin {"found", "no_result"} -> NoMessage
      [] bool(how) -> "Bisection completed successfully!"
      [] OTHER -> "Bisection completed but no clear result found"

\* main after bisector.run() returned or raised.  main only runs a bisector
\* for a package the script declares.
main_returns ==
    /\ run_result # "none"
    /\ exit_code = None
    /\ Declares
    /\ exit_code' = ExitCode(run_result)
    /\ message' = Message(run_result)
    /\ UNCHANGED << params, rm, engine_vars, probe_vars, clone_exists,
                    run_result, ed >>

Next ==
    \/ main
    \/ GitBisector_run
    \/ _clone_repository
    \/ _validate_refs
    \/ _get_commit_range
    \/ VerifyGoodRef
    \/ VerifyBadRef
    \/ SearchStep
    \/ SearchReturn
    \/ RunProcess
    \/ PinFailed
    \/ ExitZero
    \/ FailRetry
    \/ FailFinal
    \/ TimedOut
    \/ CommandNotFound
    \/ ExecutionFailed
    \/ Interrupted
    \/ main_returns

Spec == Init /\ [][Next]_vars

----------------------------------------------------------------------------
(* The editing operations on their own: ScriptParser on a script text, the  *)
(* result read again by a new ScriptParser.                                 *)

\* A script whose bisected package carries extras and a version constraint,
\* the last entry of its list without a trailing comma.
script_with_extras ==
    << StartMarker,
       RequiresPython,
       DepsOpen,
       DepLine(Versioned("xarray", "io", ">=2024.1"), TRUE, 3),
       DepLine(Specifier("numpy", "", NoUrl, NoRef), FALSE, 3),
       DepsClose,
       EndMarker,
       BodyLine >>

\* A script that names the repository of the bisected package already.
script_with_git ==
    << StartMarker,
       DepsOpen,
       DepLine(Specifier("numpy", "", NoUrl, NoRef), TRUE, 3),
       DepLine(Specifier("xarray", "", GitHubUrl, 0), TRUE, 3),
       DepsClose,
       RequiresPython,
       EndMarker,
       BodyLine >>

\* A script whose block holds a comment and a blank line.
script_with_comment ==
    << StartMarker,
       RequiresPython,
       CommentLine,
       BlankLine,
       DepsOpen,
       DepLine(Specifier("xarray", "", NoUrl, NoRef), TRUE, 3),
       DepLine(Specifier("numpy", "", NoUrl, NoRef), TRUE, 3),
       DepsClose,
       EndMarker,
       BodyLine >>

Texts ==
    {script_content, script_with_extras, script_with_git, script_with_comment}

\* Texts that are not a script with a block of metadata: no block, a
\* block that does not end, a block with a line that does not start with
\* "#", a list that is not closed, dependencies that are a string.
text_without_block == << BodyLine, BodyLine >>

text_without_end ==
    << StartMarker,
       DepsOpen,
       DepLine(Specifier("xarray", "", NoUrl, NoRef), TRUE, 3),
       DepsClose,
       BodyLine >>

text_with_bare_line ==
    << StartMarker,
       DepsOpen,
       BodyLine,
       DepLine(Specifier("xarray", "", NoUrl, NoRef), TRUE, 3),
       DepsClose,
       EndMarker,
       BodyLine >>

text_with_open_list ==
    << StartMarker,
       DepsOpen,
       DepLine(Specifier("xarray", "", NoUrl, NoRef), TRUE, 3),
       EndMarker,
       BodyLine >>

text_with_string ==
    << StartMarker,
       RequiresPython,
       DepsString(Specifier("xarray", "", NoUrl, NoRef)),
       EndMarker,
       BodyLine >>

MalformedTexts ==
    {text_without_block, text_without_end, text_with_bare_line,
     text_with_open_list, text_with_string}

InitEditor ==
    /\ ed \in {[NoEdit EXCEPT !.text = t] : t \in Texts \cup MalformedTexts}
    /\ pc = "editor"
    /\ inverse = FALSE
    /\ skip_verification = FALSE
    /\ keep_clone = FALSE
    /\ package = "xarray"
    /\ dry_run = FALSE
    /\ repo = Linear(1)
    /\ commits = <<>>
    /\ verdicts = <<>>
    /\ left = 0
    /\ right = 0 - 1
    /\ first_bad = None
    /\ steps = 0
    /\ phase = "idle"
    /\ commit = None
    /\ current_script = <<>>
    /\ previous_temp_script = NoPath
    /\ retries = 0
    /\ result = NoResult
    /\ execs = 0
    /\ outcome = "none"
    /\ fs = [q \in {ScriptPath} |-> script_content]
    /\ clone_exists = FALSE
    /\ run_result = "none"
    /\ exit_code = None
    /\ fixes_applied = {}
    /\ parser = ScriptParser(script_content)
    /\ message = NoMessage
    /\ rm = RepositoryManager

\* ScriptParser(text).update_git_reference(p, s, r), for a package the text
\* declares (parser.py: 31 to 42, 153 to 232).
Update ==
    /\ pc = "editor"
    /\ ed.n < MaxEdits
    /\ ed.op # "apply"
    /\ ParseOutcome(ed.text) = "ok"
    /\ \E p \in {"xarray", "numpy", "x"}, s \in Urls, r \in 1..MaxRef :
          /\ has_package(_parse_metadata(ed.text), p)
          /\ ed' = [NoEdit EXCEPT
                       !.text = update_git_reference(
                                    ed.text, _parse_metadata(ed.text), p, s, r),
                       !.op = "update", !.p = p, !.s = s, !.r = r,
                       !.n = ed.n + 1]
    /\ UNCHANGED << params, rm, engine_vars, probe_vars, run_vars >>

\* The error texts given to detect: at most two occurrences.
ErrorTexts == {t \in SUBSET Occurrences : Cardinality(t) <= 2}

\* AutoDependencyFixer().detect_missing_dependencies(error_output)
\* (auto_dependency_fixer.py: 95 to 114): it returns the fixes and writes
\* to the console, nothing else.  It is called, once or again, beside a
\* text that was not edited.
Detect ==
    /\ pc = "editor"
    /\ ed.n = 0
    /\ ed.op # "apply"
    /\ \E err \in ErrorTexts :
          ed' = [ed EXCEPT
                    !.op = "detect", !.err = err,
                    !.fixes = detect_missing_dependencies(PatternsIn(err))]
    /\ UNCHANGED << params, rm, engine_vars, probe_vars, run_vars >>

\* ScriptParser(script_path) on a text nothing was done with yet.
Parse ==
    /\ pc = "editor"
    /\ ed.op = "none"
    /\ ed' = [ed EXCEPT !.op = "parse", !.parsed = ParseOutcome(ed.text)]
    /\ UNCHANGED << params, rm, engine_vars, probe_vars, run_vars >>

\* AutoDependencyFixer().apply_dependency_fixes(script_path, fixes) on a
\* script a parser accepts, the user's or one update_git_reference wrote,
\* with the fixes detect found in some error output
\* (auto_dependency_fixer.py: 116 to 218).
Apply ==
    /\ pc = "editor"
    /\ ed.op \in {"none", "update"}
    /\ ParseOutcome(ed.text) = "ok"
    /\ \E error_output \in (SUBSET Patterns) \ {{}} :
          LET fixes == detect_missing_dependencies(error_output)
          IN  \E new_deps \in Orderings(FixPackages(fixes)) :
                 ed' = [ed EXCEPT
                           !.op = "apply",
                           !.text = apply_dependency_fixes(ed.text, fixes,
                                                           new_deps),
                           !.fixes = fixes]
    /\ UNCHANGED << params, rm, engine_vars, probe_vars, run_vars >>

EditorNext ==
    \/ Update
    \/ Detect
    \/ Parse
    \/ Apply

EditorSpec == InitEditor /\ [][EditorNext]_vars

----------------------------------------------------------------------------
(* The range on its own: _validate_refs and _get_commit_range of a bisector *)
(* whose clone is made, on a repository of any history.                     *)

\* The parents a commit can have: one or two of the commits before it.
ParentSets(c) ==
    {P \in SUBSET (0..(c - 1)) : P # {} /\ Cardinality(P) <= 2}

\* The histories of commits 0..c: commit 0 is the root.
RECURSIVE Histories(_)
Histories(c) ==
    IF c = 0 THEN {[x \in {0} |-> {}]}
    ELSE {[x \in 0..c |-> IF x = c THEN P ELSE h[x]] :
             h \in Histories(c - 1), P \in ParentSets(c)}

Refs == (0..MaxNodes) \cup {UnknownRef}

InitRange ==
    /\ repo \in {[parents |-> h, good |-> g, bad |-> b] :
                    h \in Histories(MaxNodes), g \in Refs, b \in Refs}
    /\ pc = "validate_refs"
    /\ clone_exists = TRUE
    /\ skip_verification \in BOOLEAN
    /\ inverse = FALSE
    /\ keep_clone = FALSE
    /\ package = "xarray"
    /\ dry_run = FALSE
    /\ commits = <<>>
    /\ verdicts = <<>>
    /\ left = 0
    /\ right = 0 - 1
    /\ first_bad = None
    /\ steps = 0
    /\ phase = "idle"
    /\ commit = None
    /\ current_script = <<>>
    /\ previous_temp_script = NoPath
    /\ retries = 0
    /\ result = NoResult
    /\ execs = 0
    /\ outcome = "none"
    /\ fs = [q \in {ScriptPath} |-> script_content]
    /\ run_result = "none"
    /\ exit_code = None
    /\ fixes_applied = {}
    /\ parser = ScriptParser(script_content)
    /\ message = NoMessage
    /\ rm = RepositoryManager
    /\ ed = NoEdit

RangeNext ==
    \/ _validate_refs
    \/ _get_commit_range

RangeSpec == InitRange /\ [][RangeNext]_vars

----------------------------------------------------------------------------
(* RepositoryManager (repository_manager.py) on its own: a program calls   *)
(* setup_repository, the operations on the repository and cleanup in any   *)
(* order.  A directory is the number of the mkdtemp call that made it; a   *)
(* Repo object is the directory it was initialised in.                     *)

InitManager ==
    /\ rm = RepositoryManager
    /\ pc = "manager"
    /\ inverse = FALSE
    /\ skip_verification = FALSE
    /\ keep_clone = FALSE
    /\ package = "xarray"
    /\ dry_run = FALSE
    /\ repo = Linear(1)
    /\ commits = <<>>
    /\ verdicts = <<>>
    /\ left = 0
    /\ right = 0 - 1
    /\ first_bad = None
    /\ steps = 0
    /\ phase = "idle"
    /\ commit = None
    /\ current_script = <<>>
    /\ previous_temp_script = NoPath
    /\ retries = 0
    /\ result = NoResult
    /\ execs = 0
    /\ outcome = "none"
    /\ fs = [q \in {ScriptPath} |-> script_content]
    /\ clone_exists = FALSE
    /\ run_result = "none"
    /\ exit_code = None
    /\ fixes_applied = {}
    /\ parser = ScriptParser(script_content)
    /\ message = NoMessage
    /\ ed = NoEdit

manager_frame == << params, engine_vars, probe_vars, run_vars, ed >>

\* setup_repository (repository_manager.py: 47 to 149).  mkdtemp is called
\* before the try statement.  Inside it self.repo is assigned by Repo.init
\* (82) and everything after may fail, the fetches above all; the handler
\* removes the directory and raises GitCommandError, and assigns nothing.
setup_repository ==
    /\ pc = "manager"
    /\ rm.made < MaxSetups
    /\ \E how \in {"ok", "mkdtemp", "init", "fetch"} :
          LET d == rm.made + 1
          IN  rm' = CASE how = "mkdtemp" ->
                           [rm EXCEPT !.ready = FALSE,
                                      !.op = "setup_repository",
                                      !.raised = "OSError"]
                      [] how = "init" ->
                           [rm EXCEPT !.clone_dir = d, !.made = d,
                                      !.ready = FALSE,
                                      !.op = "setup_repository",
                                      !.raised = "GitCommandError"]
                      [] how = "fetch" ->
                           [rm EXCEPT !.clone_dir = d, !.made = d,
                                      !.repo = d,
                                      !.ready = FALSE,
                                      !.op = "setup_repository",
                                      !.raised = "GitCommandError"]
                      [] OTHER ->
                           [rm EXCEPT !.clone_dir = d, !.made = d,
                                      !.repo = d,
                                      !.dirs = rm.dirs \cup {d},
                                      !.ready = TRUE,
                                      !.op = "setup_repository",
                                      !.raised = ""]
    /\ UNCHANGED manager_frame

\* What an operation raises ("": it returns).  'if not self.repo' raises
\* ValueError; a Repo object is true.  On a repository whose directory
\* exists the operation returns, or raises ValueError for a ref or commit
\* git does not know.  On a Repo object whose directory was removed git
\* can read nothing: the call fails, with ValueError when the error is one
\* the operation catches (git.BadName, git.GitCommandError), with that
\* error otherwise.
Raises ==
    IF rm.repo = 0 THEN {"ValueError"}
    ELSE IF rm.repo \in rm.dirs THEN {"", "ValueError"}
    ELSE {"ValueError", "Exception"}

Operation(name) ==
    /\ pc = "manager"
    /\ \E e \in Raises : rm' = [rm EXCEPT !.op = name, !.raised = e]
    /\ UNCHANGED manager_frame

\* repository_manager.py: 151 to 170
resolve_reference == Operation("resolve_reference")

\* repository_manager.py: 172 to 196
get_commit_range == Operation("get_commit_range")

\* repository_manager.py: 198 to 213
checkout_commit == Operation("checkout_commit")

\* repository_manager.py: 215 to 241
get_commit_info == Operation("get_commit_info")

\* cleanup (repository_manager.py: 243 to 255): only when clone_dir is set
\* and exists is anything done; rmtree may fail with OSError, which is
\* logged, and clone_dir and repo are set to None in either case.
cleanup ==
    /\ pc = "manager"
    /\ IF rm.clone_dir # 0 /\ rm.clone_dir \in rm.dirs
         THEN \E removed \in BOOLEAN :
                 rm' = [rm EXCEPT
                          !.dirs = IF removed THEN rm.dirs \ {rm.clone_dir}
                                              ELSE rm.dirs,
                          !.clone_dir = 0, !.repo = 0,
                          !.ready = FALSE, !.op = "cleanup", !.raised = ""]
         ELSE rm' = [rm EXCEPT !.ready = FALSE, !.op = "cleanup",
                               !.raised = ""]
    /\ UNCHANGED manager_frame

ManagerNext ==
    \/ setup_repository
    \/ resolve_reference
    \/ get_commit_range
    \/ checkout_commit
    \/ get_commit_info
    \/ cleanup

ManagerSpec == InitManager /\ [][ManagerNext]_vars

----------------------------------------------------------------------------
(* The binary search: C1 to C4 *)

Verdicts == {"good", "bad", "untestable"}

\* The commits of the range the search has probed.
Probed == {c \in 1..N : verdicts[c] # "unprobed"}

\* The ways to give every commit of the range a verdict.
Assignments == [1..N -> Verdicts]

\* The probes of this run returned what the assignment says.
Agrees(A) == \A c \in Probed : verdicts[c] = A[c]

\* Good, then bad, from commit k on (untestable commits aside).
Monotonic(A) ==
    \A i, j \in 1..N : (i < j /\ A[i] = "bad") => A[j] # "good"

Lowest(S) == IF S = {} THEN None ELSE CHOOSE c \in S : \A d \in S : c <= d

\* Commit k is the transition: the commits before it are good, it and the
\* commits after it are bad, none is untestable.
TransitionAt(k) == [c \in 1..N |-> IF c < k THEN "good" ELSE "bad"]

\* C1: on a range whose commits probe good before commit k and bad from k
\* on, none untestable, _binary_search_commits returns commit k.
C1_FindsTransition ==
    pc = "returned" =>
        \A k \in 1..N : Agrees(TransitionAt(k)) => first_bad = k

C1_Witness ==
    /\ pc = "returned"
    /\ N = 4
    /\ first_bad = 3
    /\ Agrees(TransitionAt(3))

\* C2: whatever commits probe untestable, when the other commits are good
\* then bad, the search returns the oldest commit of the range whose verdict
\* is bad (none when no commit is bad).
C2_FindsOldestBadDespiteUntestable ==
    pc = "returned" =>
        \A A \in Assignments :
            (Agrees(A) /\ Monotonic(A)) =>
                first_bad = Lowest({c \in 1..N : A[c] = "bad"})

C2_Witness ==
    /\ pc = "returned"
    /\ N = 4
    /\ verdicts = << "good", "untestable", "untestable", "bad" >>
    /\ first_bad = 4
    /\ commits = << 1, 4 >>

RECURSIVE FloorLog2(_)
FloorLog2(n) == IF n <= 1 THEN 0 ELSE 1 + FloorLog2(n \div 2)

\* ceil(log2(n)), n >= 1
CeilLog2(n) == IF n <= 1 THEN 0 ELSE 1 + FloorLog2(n - 1)

UntestableProbes == Cardinality({c \in 1..N : verdicts[c] = "untestable"})

\* The probes of this run fit a range with a single good-to-bad transition
\* (some commit is bad), untestable commits aside.
FitsTransition ==
    \E A \in Assignments :
        Agrees(A) /\ Monotonic(A) /\ \E c \in 1..N : A[c] = "bad"

\* C3, as claimed: on a monotonic range the search issues at most
\* ceil(log2(N)) + U probes, U the number of untestable probes.
C3_AtMostCeilLog2Probes ==
    (pc = "returned" /\ FitsTransition)
        => steps <= CeilLog2(N) + UntestableProbes

\* C3, amended: on a monotonic range (with or without a bad commit) the
\* search issues at most floor(log2(N)) + 1 + U probes.
C3_AtMostFloorLog2PlusOneProbes ==
    (pc = "returned" /\ \E A \in Assignments : Agrees(A) /\ Monotonic(A))
        => steps <= FloorLog2(N) + 1 + UntestableProbes

C3_Witness ==
    /\ pc = "returned"
    /\ N = 4
    /\ verdicts = << "unprobed", "good", "good", "bad" >>
    /\ steps = FloorLog2(N) + 1 + UntestableProbes

\* C4: whatever the verdicts, the search returns the lowest commit it saw
\* bad, and none exactly when it saw no commit bad.
C4_ReturnsLowestSeenBad ==
    pc = "returned" =>
        first_bad = Lowest({c \in 1..N : verdicts[c] = "bad"})

C4_Witness ==
    /\ pc = "returned"
    /\ verdicts = << "bad", "bad", "unprobed", "unprobed" >>
    /\ first_bad = 1

----------------------------------------------------------------------------
(* The oracle: C5 to C10 *)

\* The probe that has just ended was a probe of the binary search.
SearchProbeEnded == pc = "search" /\ phase = "idle" /\ steps >= 1

\* The specifiers on the dependency lines of a script's block.
Declared(lines) ==
    LET s == FirstOfKind(lines, "start", 1)
        e == FirstOfKind(lines, "end", s + 1)
        depLines == SelectSeq(SubSeq(lines, s + 1, e - 1),
                              LAMBDA l : l.k = "dep")
    IN  [i \in 1..Len(depLines) |-> depLines[i].dep]

\* C5: a probe whose test process timed out is untestable for the engine,
\* and its commit is removed from the sequence.
C5_TimeoutIsUntestable ==
    (SearchProbeEnded /\ result.kind = "TimeoutExpired")
        => /\ verdicts[commit] = "untestable"
           /\ commit \notin SeqToSet(commits)

\* C6: when the test command cannot be launched the run aborts: the engine
\* raises, and does not go on as if the commit were untestable.
C6_LaunchFailureAborts ==
    (phase = "idle" /\ result.kind = "FileNotFoundError") => pc = "raised"

FixRoundChangesNothing ==
    LET fixes == detect_missing_dependencies(result.output)
    IN  /\ phase = "exited"
        /\ result.kind = "completed"
        /\ result.returncode # 0
        /\ fixes # <<>>
        /\ FixPackages(fixes) \subseteq SeqToSet(Declared(current_script))
        /\ \A new_deps \in Orderings(FixPackages(fixes)) :
               Declared(apply_dependency_fixes(current_script, fixes, new_deps))
                   = Declared(current_script)

\* C8: after a fix round that changes nothing the test command is not run
\* again: the probe ends there.
C8_NoRetryWithoutChange ==
    [][FixRoundChangesNothing => (phase' = "idle" /\ retries' = retries)]_vars

\* C9: a probe runs the test command at most 1 + 3 times, after at most 3
\* fix rounds, and the fourth execution ends the probe whatever it gives.
C9_AtMostFourExecutions ==
    /\ [](execs <= 1 + 3 /\ retries <= 3)
    /\ [][(phase = "exited" /\ execs = 1 + 3) => phase' = "idle"]_vars

C9_Witness ==
    /\ phase = "idle"
    /\ execs = 4
    /\ retries = 3
    /\ result.returncode = 1
    /\ result.output = Patterns

\* C10: a failed execution whose output matches no pattern ends the probe
\* with the test failed: no execution follows it, and when it is the first
\* execution no fix script exists and the script is the pinned one.
NoTriggerFailure ==
    /\ result.kind = "completed"
    /\ result.returncode # 0
    /\ detect_missing_dependencies(result.output) = <<>>

C10_NoTriggerMeansOneExecution ==
    (NoTriggerFailure /\ phase # "exited")
        => /\ phase = "idle"
           /\ execs = retries + 1
           /\ retries = 0 => (execs = 1 /\ current_script = PinnedScript(commit))
           /\ SearchProbeEnded => verdicts[commit] = _test_commit("False")

C10_Witness ==
    /\ SearchProbeEnded
    /\ NoTriggerFailure
    /\ execs = 1
    /\ ~inverse
    /\ verdicts[commit] = "bad"

----------------------------------------------------------------------------
(* The run around the probes: C11 to C19 *)

\* C11: a probe one of whose executions exits 0 passes: test_commit returns
\* True, after fix rounds as well as without, and the engine, when it is
\* not in inverse mode, takes the commit as good.
C11_ExitZeroMeansPass ==
    (phase = "idle" /\ result.kind = "completed" /\ result.returncode = 0)
        => /\ outcome = "True"
           /\ (SearchProbeEnded /\ ~inverse) => verdicts[commit] = "good"

C11_Witness ==
    /\ SearchProbeEnded
    /\ ~inverse
    /\ execs = 2
    /\ retries = 1
    /\ result.returncode = 0
    /\ result.kind = "completed"
    /\ outcome = "True"
    /\ verdicts[commit] = "good"

\* C12: when an endpoint probe contradicts its ref (the good ref probes bad,
\* the bad ref probes good), run ends with an error, before any probe of the
\* search.
C12_EndpointContradictionRaises ==
    pc = "rejected"
        => /\ steps = 0
           /\ run_result \notin {"none", "found", "no_result"}

\* The probe of an endpoint ends in this step, and could not be tested.
EndpointUntestable(at) ==
    /\ pc = at
    /\ phase # "idle"
    /\ phase' = "idle"
    /\ outcome' = "raise"

\* C13: an endpoint probe that could not be tested does not end the run: from
\* the good ref the engine goes on to the bad ref, from the bad ref to the
\* search.
C13_UntestableEndpointGoesOn ==
    [][/\ EndpointUntestable("verify_good")
           => (pc' = "verify_bad" /\ run_result' = "none")
       /\ EndpointUntestable("verify_bad")
           => (pc' = "search" /\ run_result' = "none")]_vars

C13_Witness ==
    /\ ~skip_verification
    /\ pc = "search"
    /\ phase = "idle"
    /\ steps = 0
    /\ outcome = "raise"
    /\ result.kind = "FileNotFoundError"
    /\ run_result = "none"

\* C14: when the script does not declare the package, the ParseError of the
\* first probe ends the run: run raises, no verdict is recorded and no other
\* commit is probed.
C14_AbsentPackageEndsRun ==
    (~Declares /\ phase = "idle" /\ outcome = "raise")
        => /\ pc = "raised"
           /\ \A c \in 1..N : verdicts[c] = "unprobed"

\* C15: the user's script file is there, with the content it had at the
\* start, in every state of every run.
C15_UserScriptNeverWritten ==
    /\ ScriptPath \in DOMAIN fs
    /\ fs[ScriptPath] = script_content

C15_Witness ==
    /\ phase = "running"
    /\ retries = 2
    /\ DOMAIN fs = {ScriptPath, temp_script_path, fixed_script_path(1),
                    fixed_script_path(2)}
    /\ fs[temp_script_path] # script_content
    /\ fs[fixed_script_path(2)] = current_script
    /\ fs[ScriptPath] = script_content

\* C16: between probes, and after the last one, no temporary script exists:
\* the only file is the user's script.
C16_NoTempFileAfterProbe ==
    phase = "idle" => DOMAIN fs = {ScriptPath}

C16_Witness ==
    /\ pc = "interrupted"
    /\ phase = "idle"
    /\ result.kind = "KeyboardInterrupt"
    /\ retries = 3
    /\ execs = 4
    /\ DOMAIN fs = {ScriptPath}

\* C17: once run has returned or raised, the clone directory exists exactly
\* when keep_clone was asked for; with keep_clone it exists from the
\* construction of the bisector on.
C17_CloneDeletedUnlessKept ==
    /\ run_result # "none" => (clone_exists <=> keep_clone)
    /\ (keep_clone /\ pc \notin {"start", "exited", "refs_rejected",
                                 "dry_run"}) => clone_exists

C17_Witness ==
    /\ run_result = "KeyboardInterrupt"
    /\ pc = "interrupted"
    /\ steps = 2
    /\ ~keep_clone
    /\ ~clone_exists

\* C18: the command line exits with 0 when a commit was found, with 130 when
\* the user interrupted the run, and with 1 when the run met an error, an
\* endpoint that contradicts its ref among them.
C18_ExitCodes ==
    exit_code # None
        => /\ run_result = "found" => exit_code = 0
           /\ run_result = "KeyboardInterrupt" => exit_code = 130
           /\ pc \in {"exited", "raised", "rejected"} => exit_code = 1

IsPrefix(s, t) == Len(s) <= Len(t) /\ SubSeq(t, 1, Len(s)) = s

NoTwoSameName(deps) ==
    \A i, j \in 1..Len(deps) :
        extract_package_name(deps[i]) = extract_package_name(deps[j]) => i = j

\* C19: a fix round keeps the specifiers the block declared, in their order,
\* in front of what it adds, and leaves no two specifiers of one package.
C19_FixRoundKeepsAndDedupes ==
    [][retries' = retries + 1
          => /\ IsPrefix(Declared(current_script), Declared(current_script'))
             /\ NoTwoSameName(Declared(current_script'))]_vars

----------------------------------------------------------------------------
(* The editing operations: C20 to C23, C28 *)

\* C20: updating the result of an update with the same package, url and ref
\* gives the same text again.
C20_UpdateIsIdempotent ==
    [][(ed.op = "update" /\ ed'.op = "update"
            /\ ed'.p = ed.p /\ ed'.s = ed.s /\ ed'.r = ed.r)
          => ed'.text = ed.text]_vars

\* The lines of a text that are not the lines of its dependency list.
OtherLines(text) ==
    SelectSeq(text, LAMBDA l :
        l.k \notin {"deps_open", "dep", "close", "deps_string"})

\* C21: an update changes the lines of the dependency list only: the script
\* body, the marker lines and the other lines of the block (keys, comments,
\* blank lines) are in the new text as they were.
C21_UpdateKeepsOtherLines ==
    [][ed'.op = "update" => OtherLines(ed'.text) = OtherLines(ed.text)]_vars

\* C22: the text an update gives, parsed again, declares as many
\* dependencies as the text before: at the places of the package's entries
\* a specifier of the package that pins the url (with "git+" in front) at
\* the ref, at the other places the specifier that was there.
C22_UpdateRoundTrip ==
    [][ed'.op = "update"
          => LET before == _parse_metadata(ed.text).dependencies
                 after == _parse_metadata(ed'.text).dependencies
             IN  /\ Len(after) = Len(before)
                 /\ has_package(_parse_metadata(ed'.text), ed'.p)
                 /\ \A i \in 1..Len(before) :
                       IF extract_package_name(before[i]) = ed'.p
                         THEN /\ extract_package_name(after[i]) = ed'.p
                              /\ after[i].url = GitUrl(ed'.s)
                              /\ after[i].ref = ed'.r
                              /\ after[i].version = ""
                         ELSE after[i] = before[i]]_vars

C22_Witness ==
    /\ ed.op = "update"
    /\ ed.n = 2
    /\ ed.p = "xarray"
    /\ ed.s = PlainUrl
    /\ ed.r = 2
    /\ _parse_metadata(ed.text).dependencies
          = << Specifier("numpy", "", NoUrl, NoRef),
               Specifier("xarray", "", GitHubUrl, 2) >>

\* C23: the specifier an update writes for an entry of the package is the
\* package, the extras the entry had (none when it had none), the url and
\* the ref, and nothing of the entry's former url, ref or version.
C23_UpdateKeepsExtrasOnly ==
    [][ed'.op = "update"
          => LET before == _parse_metadata(ed.text).dependencies
                 after == _parse_metadata(ed'.text).dependencies
             IN  \A i \in 1..Len(before) :
                     extract_package_name(before[i]) = ed'.p
                         => after[i] = Specifier(ed'.p, before[i].extras,
                                                 GitUrl(ed'.s), ed'.r)]_vars

----------------------------------------------------------------------------
(* The fix detector: C24 *)

\* The entries of the catalog whose pattern occurs in the text, in whatever
\* case.
Matching(error_text) ==
    {DEPENDENCY_FIXES[i] : i \in {j \in 1..Len(DEPENDENCY_FIXES) :
        \E o \in error_text : o.pattern = DEPENDENCY_FIXES[j].error_pattern}}

\* C24: detect returns the entries of the catalog whose pattern occurs in
\* the text, all of them and each once, whatever the case of the text; the
\* same entries in whatever order the catalog is gone through, and the same
\* list when it is called again on the same text.
C24_DetectReturnsAllMatches ==
    /\ [](ed.op = "detect"
            => /\ SeqToSet(ed.fixes) = Matching(ed.err)
               /\ Len(ed.fixes) = Cardinality(Matching(ed.err))
               /\ \A catalog \in Orderings(SeqToSet(DEPENDENCY_FIXES)) :
                      SeqToSet(DetectWith(catalog, PatternsIn(ed.err)))
                          = SeqToSet(ed.fixes))
    /\ [][(ed.op = "detect" /\ ed'.op = "detect" /\ ed'.err = ed.err)
             => (ed'.fixes = ed.fixes /\ ed'.text = ed.text)]_vars

C24_Witness ==
    /\ ed.op = "detect"
    /\ ed.err = {[pattern |-> "chunk manager 'dask' is not available",
                  capitals |-> TRUE],
                 [pattern |-> "make sure 'dask' is installed",
                  capitals |-> FALSE]}
    /\ Len(ed.fixes) = 2

\* C28: constructing a parser on a malformed text raises ParseError: a text
\* without a block, with a block that has a line not starting with "#", with
\* TOML that cannot be decoded, or with dependencies that are not a list.
C28_MalformedTextRaisesParseError ==
    (ed.op = "parse" /\ ed.text \in MalformedTexts)
        => ed.parsed = "ParseError"

----------------------------------------------------------------------------
(* The inverse mode, the commit range and the command line: C25 to C30 *)

\* C25: in inverse mode the engine takes a probe whose test passed as bad,
\* one whose test failed as good and one that raised as untestable, at the
\* endpoints as in the search; and on a range whose commits fail the test
\* before commit k and pass it from k on, the search returns commit k.
C25_InverseSwapsPassAndFail ==
    /\ (inverse /\ SearchProbeEnded)
          => verdicts[commit] = CASE outcome = "True" -> "bad"
                                  [] outcome = "False" -> "good"
                                  [] OTHER -> "untestable"
    /\ (inverse /\ pc = "rejected")
          => \/ commit = good_commit /\ outcome = "True"
             \/ commit = bad_commit /\ outcome = "False"
    /\ (inverse /\ pc = "returned")
          => \A k \in 1..N : Agrees(TransitionAt(k)) => first_bad = k

C25_Witness ==
    /\ inverse
    /\ pc = "returned"
    /\ N = 4
    /\ verdicts = << "unprobed", "good", "bad", "unprobed" >>
    /\ first_bad = 3
    /\ commit = 3
    /\ outcome = "True"
    /\ result.returncode = 0

\* good_ref and bad_ref give no range: one of them names no commit, or no
\* commit is reachable from bad and not from good.
NoRange(r) ==
    IF r.good = UnknownRef \/ r.bad = UnknownRef THEN TRUE
    ELSE rev_list(r) = <<>>

GitErrors ==
    {"GitError: Invalid git reference", "GitError: No commits found",
     "GitError: Failed to get commit range"}

Descends(r) ==
    /\ r.good # UnknownRef
    /\ r.bad # UnknownRef
    /\ r.good # r.bad
    /\ r.good \in Reachable(r.parents, r.bad)

\* C27: when the commit of bad_ref does not descend from the commit of
\* good_ref, the resolution of the range raises and gives no commits.
C27_RangeNeedsDescendant ==
    (~Descends(repo) /\ pc \notin {"validate_refs", "range"})
        => (pc = "raised" /\ commits = <<>>)

\* C29: for a package the script does not declare the command line ends
\* with exit code 1, in dry-run mode as well; no bisector was made, no clone
\* directory, and no probe was executed.
C29_UndeclaredPackageExitsOne ==
    /\ (~Declares /\ (exit_code # None \/ pc = "exited" \/ dry_run))
          => /\ pc \in {"start", "exited"}
             /\ pc = "exited" <=> exit_code = 1
             /\ pc = "start" <=> exit_code = None
             /\ ~clone_exists
             /\ run_result = "none"
             /\ commit = None /\ execs = 0 /\ steps = 0
    /\ pc = "exited" => ~Declares

C29_Witness ==
    /\ pc = "exited"
    /\ package = "pandas"
    /\ exit_code = 1
    /\ ~dry_run
    /\ ~clone_exists

\* C30: in dry-run mode no bisector is made and so no clone directory, no
\* probe is executed and no file is written; main returns, exit code 0,
\* unless it ended before on a package the script does not declare or on
\* equal refs.
C30_DryRunDoesNothing ==
    /\ dry_run
          => /\ ~clone_exists
             /\ run_result = "none"
             /\ commit = None /\ execs = 0 /\ steps = 0 /\ phase = "idle"
             /\ fs = [q \in {ScriptPath} |-> script_content]
             /\ pc \in {"start", "exited", "refs_rejected", "dry_run"}
             /\ pc = "exited" => ~Declares
             /\ pc = "refs_rejected" => repo.good = repo.bad
    /\ pc = "dry_run" => (dry_run /\ exit_code = 0)

C30_Witness ==
    /\ pc = "dry_run"
    /\ dry_run
    /\ exit_code = 0
    /\ repo = [Linear(1) EXCEPT !.bad = UnknownRef]

----------------------------------------------------------------------------
(* The commit sequence under the search: C31 to C34 *)

\* The commits at indices low..high of a sequence (indices from 0).
Window(s, low, high) == {s[i] : i \in (low + 1)..(high + 1)}

\* C31: the removal of an untestable commit drops no other candidate: right
\* after it the commits at low..high are those at low..high before it
\* without the removed commit, and first_bad, when there is one, is the
\* commit at index high + 1.
C31_RemovalKeepsOtherCandidates ==
    [][(pc = "search" /\ Len(commits') < Len(commits))
          => /\ commits' = Pop(commits, mid)
             /\ Window(commits', left', right')
                   = Window(commits, left, right) \ {commit}
             /\ first_bad' # None
                   => /\ right' + 2 <= Len(commits')
                      /\ commits'[right' + 2] = first_bad']_vars

C31_Witness ==
    /\ pc = "search"
    /\ N = MaxCommits
    /\ commits = << 2, 3, 4 >>
    /\ verdicts[1] = "untestable"
    /\ first_bad = 2
    /\ right = 0 - 1

\* C32: at every probe of the search 0 <= low <= mid <= high <=
\* len(commits) - 1, and the commit under test is commits[mid]; between the
\* probes low and high stay within 0..len(commits) and -1..len(commits) - 1.
C32_IndicesWithinSequence ==
    (pc = "search")
        => /\ 0 <= left /\ left <= Len(commits)
           /\ 0 - 1 <= right /\ right <= Len(commits) - 1
           /\ phase # "idle"
                 => /\ left <= mid /\ mid <= right
                    /\ commit = commits[mid + 1]

C32_Witness ==
    /\ pc = "search"
    /\ phase = "running"
    /\ N = MaxCommits
    /\ Len(commits) = 2
    /\ left = 1 /\ right = 1
    /\ commit = commits[2]

\* C33: whatever the verdicts, the search makes at most N probes on a range
\* of N commits and probes no commit twice: the probes made and the commits
\* still to search are never more than N together, and a commit that is
\* probed was not probed before; the search returns when none is left.
C33_AtMostNProbesEachCommitOnce ==
    /\ []((pc \in {"search", "returned"} /\ phase = "idle")
             => /\ steps <= N
                /\ steps + (IF left <= right THEN right - left + 1 ELSE 0) <= N
                /\ steps = Cardinality(Probed))
    /\ [][(pc = "search" /\ steps' = steps + 1)
             => (verdicts[commit'] = "unprobed" /\ commit' \in SeqToSet(commits))]_vars

C33_Witness ==
    /\ pc = "returned"
    /\ N = MaxCommits
    /\ steps = MaxCommits
    /\ \A c \in 1..N : verdicts[c] = "untestable"
    /\ commits = <<>>

\* s is t without some of its elements, the others in the order of t.
RECURSIVE IsSubsequence(_, _)
IsSubsequence(s, t) ==
    IF s = <<>> THEN TRUE
    ELSE IF t = <<>> THEN FALSE
    ELSE IF Head(s) = Head(t) THEN IsSubsequence(Tail(s), Tail(t))
    ELSE IsSubsequence(s, Tail(t))

\* C34: once the range is resolved the sequence is the resolved sequence
\* without the commits the search probed untestable, the others in their
\* order; it changes by the removal of the commit under test, and by nothing
\* else.
C34_SequenceOnlyLosesUntestable ==
    /\ [](verdicts # <<>>
             => /\ IsSubsequence(commits, rev_list(repo))
                /\ SeqToSet(rev_list(repo)) \ SeqToSet(commits)
                      = {c \in 1..N : verdicts[c] = "untestable"})
    /\ [][(verdicts # <<>> /\ commits' # commits)
             => /\ commits' = Pop(commits, mid)
                /\ commit = commits[mid + 1]
                /\ verdicts'[commit] = "untestable"]_vars

C34_Witness ==
    /\ pc = "search"
    /\ N = MaxCommits
    /\ commits = << 1, 4 >>
    /\ verdicts[2] = "untestable"
    /\ verdicts[3] = "untestable"

----------------------------------------------------------------------------
(* The fix rounds and the scripts they write: C35, C36 *)

\* C35: within a probe a fix round only adds: every specifier the script of
\* one execution declares is declared, unchanged, by the script of the next
\* execution.
C35_FixRoundsOnlyAdd ==
    [][(retries' = retries + 1 /\ phase' = "running")
          => SeqToSet(Declared(current_script))
                \subseteq SeqToSet(Declared(current_script'))]_vars

\* The lines of a text's block: between the first "# /// script" and the
\* first "# ///" after it.
BlockOf(text) ==
    SubSeq(text, FirstOfKind(text, "start", 1) + 1,
           FirstOfKind(text, "end", FirstOfKind(text, "start", 1) + 1) - 1)

\* The lines of a block that are no part of a dependencies list.
OtherBlockLines(text) ==
    SelectSeq(BlockOf(text), LAMBDA l : l.k \notin {"deps_open", "dep", "close"})

\* C36: wherever the dependencies key stands in the block, the block that
\* apply_dependency_fixes writes holds one dependencies list, which a parser
\* reads; the other lines of the block are kept; the list is the entries the
\* block declared followed by the new ones.
C36_ApplyWritesWellFormedBlock ==
    [][ed'.op = "apply"
          => /\ Cardinality({i \in 1..Len(BlockOf(ed'.text)) :
                                BlockOf(ed'.text)[i].k = "deps_open"}) = 1
             /\ ParseOutcome(ed'.text) = "ok"
             /\ OtherBlockLines(ed'.text) = OtherBlockLines(ed.text)
             /\ IsPrefix(Declared(ed.text), Declared(ed'.text))
             /\ SeqToSet(Declared(ed'.text))
                   = SeqToSet(Declared(ed.text)) \cup FixPackages(ed'.fixes)
             /\ Len(Declared(ed'.text))
                   = Cardinality(SeqToSet(Declared(ed.text))
                                 \cup FixPackages(ed'.fixes))]_vars

----------------------------------------------------------------------------
(* The parser under the probes: C37 *)

\* C37: update_git_reference leaves the parser's content and metadata as
\* they were read from the user's script, and the script a probe starts with
\* is made from the user's script and the commit under test alone, whatever
\* was pinned and whatever fix rounds added before.
C37_ProbeScriptDependsOnCommitOnly ==
    /\ pc # "editor" => parser = ScriptParser(script_content)
    /\ (phase = "running" /\ execs = 0)
          => /\ current_script
                   = update_git_reference(script_content,
                                          _parse_metadata(script_content),
                                          package, repo_url, commit)
             /\ fs[temp_script_path] = current_script

C37_Witness ==
    /\ phase = "running"
    /\ execs = 0
    /\ steps = 2
    /\ commit = 1
    /\ verdicts[2] = "bad"
    /\ fixes_applied = { Specifier("cftime", "", NoUrl, NoRef) }
    /\ parser = ScriptParser(script_content)

----------------------------------------------------------------------------
(* Verdicts and messages: C38, C39 *)

\* C38: in inverse mode a probe whose test process timed out, or whose
\* execution failed with an unexpected exception, is not taken as good.
C38_InverseNeverGoodWithoutCompletedRun ==
    (inverse /\ SearchProbeEnded
       /\ result.kind \in {"TimeoutExpired", "Exception"})
        => verdicts[commit] # "good"

\* C39: main prints that the bisection completed successfully only when run
\* found a commit; when run returned without one, after a search that found
\* none or after an endpoint check that failed, main prints the line about
\* no clear result.
C39_SuccessMessageOnlyWhenFound ==
    /\ message = "Bisection completed successfully!" => run_result = "found"
    /\ (exit_code # None /\ run_result = "no_result")
          => message = "Bisection completed but no clear result found"

----------------------------------------------------------------------------
(* The repository manager: C40 *)

Operations ==
    {"resolve_reference", "get_commit_range", "checkout_commit",
     "get_commit_info"}

\* C40: an operation raises ValueError unless the last setup_repository
\* succeeded and cleanup was not called since; after a setup_repository
\* that failed, the directory it made is removed and the manager holds no
\* repository.
C40_OperationsGuardedBySetup ==
    /\ (rm.op \in Operations /\ ~rm.ready) => rm.raised = "ValueError"
    /\ (rm.op = "setup_repository" /\ rm.raised = "GitCommandError")
          => (rm.clone_dir \notin rm.dirs /\ rm.repo = 0)

====
